---- MODULE Spec2Model ----
(***************************************************************************)
(* ecmwfspec: file handles on a tape archive (ECFile), the shared          *)
(* retrieval queue and lock, and the listing cache of ECFileSystem.ls.     *)
(*                                                                         *)
(* Strings are modelled as sequences of one-character strings, so that     *)
(* strip, startswith and path joins are computed as the code computes them.*)
(***************************************************************************)
EXTENDS Integers, Sequences, FiniteSets, TLC

\* ------------------------------------------------------------------ bounds
NumHandles == 2

MaxLsCalls == 3

Handles == 1 .. NumHandles

\* ------------------------------------------------------- strings and paths
SL == "/"

RECURSIVE LStrip(_)
LStrip(s) == IF s # << >> /\ Head(s) = SL THEN LStrip(Tail(s)) ELSE s

RECURSIVE RStrip(_)
RStrip(s) == IF s # << >> /\ s[Len(s)] = SL THEN RStrip(SubSeq(s, 1, Len(s) - 1)) ELSE s

\* file.strip("/")
Strip(s) == RStrip(LStrip(s))

\* path.relative_to(path.anchor) for an absolute posix path
RelativeToAnchor(p) == IF p # << >> /\ Head(p) = SL THEN Tail(p) ELSE p

\* ec_cache / Path(rel), os.path.join(ec_cache, rel)
JoinPath(a, b) == a \o <<SL>> \o b

RECURSIVE Parent(_)
\* Path(p).parent
Parent(p) ==
    IF p = << >> THEN << >>
    ELSE IF p[Len(p)] = SL THEN (IF Len(p) = 1 THEN p ELSE SubSeq(p, 1, Len(p) - 1))
    ELSE Parent(SubSeq(p, 1, Len(p) - 1))

\* ------------------------------------------------------- inputs of the model
Urls == { <<"/", "a">>, <<"/", "b">> }

Roots == { <<"/", "c">>, <<"/", "d">> }

\* the ECFileSystem instances handles are opened through: ec_cache, override, touch
FsDefault == [ec_cache |-> <<"/", "c">>, override |-> FALSE, touch |-> TRUE]

FsOverride == [ec_cache |-> <<"/", "c">>, override |-> TRUE, touch |-> TRUE]

FsOther == [ec_cache |-> <<"/", "d">>, override |-> FALSE, touch |-> FALSE]

FileSystems == { FsDefault, FsOverride, FsOther }

ReadBinary == <<"r", "b">>

\* the arguments of the open calls: every url through every file system in the
\* default mode "rb", and the other modes on one path
OpenArgs ==
    { [url |-> u, fs |-> f, mode |-> ReadBinary] : u \in Urls, f \in FileSystems }
  \cup
    { [url |-> <<"/", "a">>, fs |-> FsDefault, mode |-> m] :
        m \in { <<"r", "+">>, <<"r", "w">>, <<"w">>, <<"a">> } }

LocalPaths == { JoinPath(r, RelativeToAnchor(u)) : r \in Roots, u \in Urls }

\* the contents of the cache directories when the program starts
InitialCaches == { {}, { <<"/", "c", "/", "a">>, <<"/", "d", "/", "b">> } }

\* the archive as "els -l -R /" lists it: the path of each entry and the first
\* character of its permission string
ArchiveListing ==
    << [path |-> <<"/", "a">>, permissions |-> "d"],
       [path |-> <<"/", "a", "/", "b">>, permissions |-> "d"],
       [path |-> <<"/", "a", "/", "b", "c">>, permissions |-> "-"],
       [path |-> <<"/", "a", "/", "b", "/", "f">>, permissions |-> "-"] >>

\* the paths ls is called with
LsPaths ==
    { ArchiveListing[i].path : i \in DOMAIN ArchiveListing } \cup { <<"/", "z">> }

\* ------------------------------------------------------------------- state
VARIABLES
    handle,      \* the ECFile objects: their constructor fields
    pc,          \* where the thread using each handle stands
    lock,        \* _retrieval_lock: its holder, or NoHolder
    queue,       \* FileQueue: the queued (url, directory) tuples
    unfinished,  \* FileQueue.unfinished_tasks
    items,       \* _cache_files: the local list items of each call
    n,           \* _cache_files: iterations left of the snapshot loop
    k,           \* _retrieve_items: index of the next file to copy
    exists,      \* the local files that exist
    mtime,       \* modification stamp of each local file
    copies,      \* history: ecfs.cp calls made for the request of each handle
    batch,       \* history: what became of the request of each handle
    phase,       \* history: "opening" until a first access begins, then "reading",
                 \* and "late" once a request is enqueued after that
    nonEmpty,    \* history: number of drains that took a non-empty batch
    file_listing_cache,  \* ECFileSystem.file_listing_cache: the cached rows
    lsCalls,     \* history: number of ls calls made
    lastLs,      \* history: the last ls call, whether it called ecfs.ls, its result
    lastCall     \* history: the last call of write or writelines, or of an
                 \* operation on a handle that has its local descriptor

fileVars == << handle, pc, lock, queue, unfinished, items, n, k, exists, mtime,
               copies, batch, phase, nonEmpty >>

lsVars == << file_listing_cache, lsCalls, lastLs >>

callVars == << lastCall >>

vars == << fileVars, lsVars, callVars >>

NoHolder == 0

NoHandle == [url |-> << >>, file |-> << >>, ec_cache |-> << >>,
             override |-> FALSE, touch |-> FALSE, mode |-> << >>]

\* the ("finish", "finish") tuple
Sentinel == [url |-> <<"finish">>, dir |-> <<"finish">>, by |-> 0]

IsSentinel(e) == e.url = <<"finish">> /\ e.dir = <<"finish">>

\* ----------------------------------------------------------------- helpers
\* set(mode) & set("r")
HasR(mode) == \E i \in DOMAIN mode : mode[i] = "r"

\* builtin open(file, mode): exactly one of the modes r, w, a, x may be given
ValidOpenMode(mode) ==
    Cardinality({ i \in DOMAIN mode : mode[i] \in {"r", "w", "a", "x"} }) = 1

\* variant of LockFree: the lock is not looked at
LockFreeNever == TRUE

\* threading.Lock: "with _lock" goes on when no thread holds the lock
LockFree == lock = NoHolder

\* Queue.qsize()
QSize(q) == Len(q)

\* variant of TaskDone: the count goes down by two
TaskDoneTwice(u) == u - 2

\* Queue.task_done()
TaskDone(u) == u - 1

\* variant of SnapshotCount: the loop stops one item early
SnapshotCountShort(q) == QSize(q) - 2

\* range(self._file_queue.qsize() - 1), evaluated after the sentinel was put
SnapshotCount(q) == QSize(q) - 1

\* variant of DropAll: the except branch leaves the queue as it is
DropNone(q) == q

\* [self._file_queue.get() for _ in range(self._file_queue.qsize())]
DropAll(q) == SubSeq(q, QSize(q) + 1, QSize(q))

\* the local path _retrieve_items copies a url to
RetrievePath(h, url) == JoinPath(handle[h].ec_cache, Strip(url))

\* variant of NeedsRetrieval: no open enqueues
NeedsRetrievalNever(h) == FALSE

\* variant of NeedsRetrieval: every open enqueues
NeedsRetrievalAlways(h) == TRUE

\* not Path(self._file).exists() or override
NeedsRetrieval(h) == handle[h].file \notin exists \/ handle[h].override

\* builtin open(self._file, self.mode) returns a file object
CanOpen(h) == handle[h].file \in exists /\ ValidOpenMode(handle[h].mode)

\* variant of NextIndex: the loop skips a file
NextIndexSkip(i) == i + 2

\* "for file in retrieval_requests": the next file of the loop
NextIndex(i) == i + 1

\* variant of AfterExcept: the error is swallowed and the call goes on
AfterExceptFallThrough == "join"

\* where the except branch leaves the call: "raise error"
AfterExcept == "failed"

\* variant of AfterCopyFailure: the failing item is tried again
AfterCopyFailureRetry == "retrieve"

\* an exception of ecfs.cp leaves _retrieve_items and is caught by the except
\* branch of _cache_files
AfterCopyFailure == "except"

\* variant of ItemAt: the files are gone through from the last to the first
ItemAtReversed(its, i) == its[Len(its) + 1 - i]

\* "for file in retrieval_requests": the i-th file the loop copies
ItemAt(its, i) == its[i]

\* variant of FileObjIsNone: every operation goes through _cache_files
FileObjIsNoneAlways(h) == TRUE

\* "if self._file_obj is None"
FileObjIsNone(h) == pc[h] \notin {"staged", "closed"}

\* variant of AfterClose: close forgets the local descriptor
AfterCloseReset(s) == "pending"

\* close(): the descriptor is closed if there is one
AfterClose(s) == IF s = "staged" THEN "closed" ELSE s

\* variant of WriteRaises: write is handed on like read
WriteRaisesNever(h) == FALSE

\* write, writelines: "raise NotImplementedError(self.write_msg)"
WriteRaises(h) == TRUE

\* the request __init__ puts
Request(h) == [url |-> handle[h].url, dir |-> Parent(handle[h].file), by |-> h]

\* str.startswith
StartsWith(s, p) == Len(s) >= Len(p) /\ SubSeq(s, 1, Len(p)) = p

\* the entry is below the directory p in the archive
IsBelow(e, p) == StartsWith(e, p \o <<SL>>)

\* the last component of a path
RECURSIVE BaseName(_)
BaseName(p) ==
    IF p = << >> \/ p[Len(p)] = SL THEN << >>
    ELSE BaseName(SubSeq(p, 1, Len(p) - 1)) \o << p[Len(p)] >>

InArchive(p) == \E i \in DOMAIN ArchiveListing : ArchiveListing[i].path = p

IsDirectory(p) ==
    \E i \in DOMAIN ArchiveListing :
        ArchiveListing[i].path = p /\ ArchiveListing[i].permissions = "d"

IsRowBelow(row, p) == IsBelow(row.path, p)

IsRowChild(row, p) == IsBelow(row.path, p) /\ Parent(row.path) = p

RelativeRow(row) == [row EXCEPT !.path = BaseName(row.path)]

RECURSIVE MapRelative(_)
MapRelative(rows) ==
    IF rows = << >> THEN << >>
    ELSE << RelativeRow(Head(rows)) >> \o MapRelative(Tail(rows))

\* ecfs.ls(path, detail, recursive) on a path of the archive: "els -l -R" lists
\* every entry below a directory with its full path, "els -l" the entries of a
\* directory by name, and a file is listed as the path that was given
EcfsLs(p, recursive) ==
    IF ~IsDirectory(p)
    THEN SelectSeq(ArchiveListing, LAMBDA row : row.path = p)
    ELSE IF recursive
         THEN SelectSeq(ArchiveListing, LAMBDA row : IsRowBelow(row, p))
         ELSE MapRelative(SelectSeq(ArchiveListing, LAMBDA row : IsRowChild(row, p)))

\* the rows of the cache ls looks at: startswith for a recursive call, equality otherwise
CacheLookup(cache, p, recursive) ==
    IF recursive
    THEN SelectSeq(cache, LAMBDA row : StartsWith(row.path, p))
    ELSE SelectSeq(cache, LAMBDA row : row.path = p)

\* the fetched rows are added to the cache in case of a recursive call only
StoresListing(recursive) == recursive

\* str(path / file_entry.path)
EntryName(p, rowPath) ==
    IF rowPath # << >> /\ Head(rowPath) = SL THEN rowPath ELSE JoinPath(p, rowPath)

\* types[file_entry.permissions[0]]
EntryType(perm) == IF perm = "d" THEN "directory" ELSE "file"

RECURSIVE DetailList(_, _)
DetailList(p, rows) ==
    IF rows = << >> THEN << >>
    ELSE << [name |-> EntryName(p, Head(rows).path),
             type |-> EntryType(Head(rows).permissions)] >>
         \o DetailList(p, Tail(rows))

NoLs == [path |-> << >>, recursive |-> FALSE, fetched |-> FALSE,
         raised |-> FALSE, result |-> << >>]

NoCall == [op |-> "none", by |-> 0, raised |-> FALSE]

DrainPcs == {"snap", "retrieve", "except", "finish"}

CachePcs == {"sleep", "join", "open"} \cup DrainPcs

Init ==
    /\ handle = [h \in Handles |-> NoHandle]
    /\ pc = [h \in Handles |-> "new"]
    /\ lock = NoHolder
    /\ queue = << >>
    /\ unfinished = 0
    /\ items = [h \in Handles |-> << >>]
    /\ n = [h \in Handles |-> 0]
    /\ k = [h \in Handles |-> 0]
    /\ exists \in InitialCaches
    /\ mtime = [p \in LocalPaths |-> 0]
    /\ copies = [h \in Handles |-> 0]
    /\ batch = [h \in Handles |-> "none"]
    /\ phase = "opening"
    /\ nonEmpty = 0
    /\ file_listing_cache = << >>
    /\ lsCalls = 0
    /\ lastLs = NoLs
    /\ lastCall = NoCall

\* ECFileSystem._open and ECFile.__init__ up to "with _lock"
Open(h) ==
    /\ pc[h] = "new"
    /\ \A g \in Handles : g < h => pc[g] # "new"
    /\ \E a \in OpenArgs :
        IF ~HasR(a.mode)
        THEN /\ pc' = [pc EXCEPT ![h] = "rejected"]
             /\ handle' = [handle EXCEPT ![h] = [NoHandle EXCEPT !.mode = a.mode]]
        ELSE /\ pc' = [pc EXCEPT ![h] = "init_wait"]
             /\ handle' = [handle EXCEPT ![h] =
                    [url |-> a.url,
                     file |-> JoinPath(a.fs.ec_cache, RelativeToAnchor(a.url)),
                     ec_cache |-> a.fs.ec_cache, override |-> a.fs.override,
                     touch |-> a.fs.touch, mode |-> a.mode]]
    /\ UNCHANGED << lock, queue, unfinished, items, n, k, exists, mtime,
                    copies, batch, phase, nonEmpty >>
    /\ UNCHANGED lsVars
    /\ UNCHANGED callVars

\* ECFile.__init__: the body of "with _lock"
InitLocked(h) ==
    /\ pc[h] = "init_wait"
    /\ LockFree
    /\ IF NeedsRetrieval(h)
       THEN /\ queue' = Append(queue, Request(h))
            /\ unfinished' = unfinished + 1
            /\ pc' = [pc EXCEPT ![h] = "pending"]
            /\ batch' = [batch EXCEPT ![h] = "queued"]
            /\ phase' = IF phase = "opening" THEN "opening" ELSE "late"
            /\ UNCHANGED mtime
       ELSE /\ mtime' = [mtime EXCEPT ![handle[h].file] =
                            IF handle[h].touch THEN @ + 1 ELSE @]
            /\ pc' = [pc EXCEPT ![h] =
                         IF ValidOpenMode(handle[h].mode) THEN "staged" ELSE "ctor_error"]
            /\ UNCHANGED << queue, unfinished, batch, phase >>
    /\ UNCHANGED << handle, lock, items, n, k, exists, copies, nonEmpty >>
    /\ UNCHANGED lsVars
    /\ UNCHANGED callVars

\* tell, seek, peek, read, __fspath__ on a handle without _file_obj:
\* _cache_files is entered and sleeps
BeginAccess(h) ==
    /\ pc[h] \in {"pending", "staged"}
    /\ FileObjIsNone(h)
    /\ pc' = [pc EXCEPT ![h] = "sleep"]
    /\ phase' = IF phase = "opening" THEN "reading" ELSE phase
    /\ UNCHANGED << handle, lock, queue, unfinished, items, n, k, exists, mtime,
                    copies, batch, nonEmpty >>
    /\ UNCHANGED lsVars
    /\ UNCHANGED callVars

\* _cache_files: the lock is taken, the queue size is looked at, the sentinel put
DrainLock(h) ==
    /\ pc[h] = "sleep"
    /\ LockFree
    /\ IF QSize(queue) > 0
       THEN /\ lock' = h
            /\ queue' = Append(queue, Sentinel)
            /\ unfinished' = unfinished + 1
            /\ n' = [n EXCEPT ![h] = SnapshotCount(Append(queue, Sentinel))]
            /\ pc' = [pc EXCEPT ![h] = "snap"]
            /\ nonEmpty' = nonEmpty + 1
       ELSE /\ pc' = [pc EXCEPT ![h] = "join"]
            /\ UNCHANGED << lock, queue, unfinished, n, nonEmpty >>
    /\ UNCHANGED << handle, items, k, exists, mtime, copies, batch, phase >>
    /\ UNCHANGED lsVars
    /\ UNCHANGED callVars

\* _cache_files: one iteration of the snapshot loop (get, task_done)
SnapGet(h) ==
    /\ pc[h] = "snap"
    /\ IF n[h] > 0
       THEN /\ queue # << >>
            /\ items' = [items EXCEPT ![h] = Append(@, Head(queue))]
            /\ queue' = Tail(queue)
            /\ unfinished' = TaskDone(unfinished)
            /\ n' = [n EXCEPT ![h] = @ - 1]
            /\ batch' = [g \in Handles |->
                           IF g = Head(queue).by THEN "active" ELSE batch[g]]
            /\ UNCHANGED << pc, k >>
       ELSE /\ pc' = [pc EXCEPT ![h] = "retrieve"]
            /\ k' = [k EXCEPT ![h] = 1]
            /\ UNCHANGED << items, queue, unfinished, n, batch >>
    /\ UNCHANGED << handle, lock, exists, mtime, copies, phase, nonEmpty >>
    /\ UNCHANGED lsVars
    /\ UNCHANGED callVars

\* _retrieve_items: ecfs.cp and chmod of one file; cp may fail
CopyItem(h) ==
    /\ pc[h] = "retrieve"
    /\ k[h] <= Len(items[h])
    /\ LET it == ItemAt(items[h], k[h])
           dst == RetrievePath(h, it.url)
       IN /\ copies' = [g \in Handles |-> IF g = it.by THEN copies[g] + 1 ELSE copies[g]]
          /\ \E ok \in BOOLEAN :
               IF ok
               THEN /\ exists' = exists \cup {dst}
                    /\ mtime' = [mtime EXCEPT ![dst] = @ + 1]
                    /\ k' = [k EXCEPT ![h] = NextIndex(@)]
                    /\ pc' = [pc EXCEPT ![h] =
                                 IF NextIndex(k[h]) > Len(items[h])
                                 THEN "finish" ELSE "retrieve"]
               ELSE /\ pc' = [pc EXCEPT ![h] = AfterCopyFailure]
                    /\ UNCHANGED << exists, mtime, k >>
    /\ UNCHANGED << handle, lock, queue, unfinished, items, n, batch, phase, nonEmpty >>
    /\ UNCHANGED lsVars
    /\ UNCHANGED callVars

\* _cache_files: the except branch; the error is raised out of the call
DrainExcept(h) ==
    /\ pc[h] = "except"
    /\ queue' = DropAll(queue)
    /\ unfinished' = TaskDone(unfinished)
    /\ lock' = NoHolder
    /\ items' = [items EXCEPT ![h] = << >>]
    /\ k' = [k EXCEPT ![h] = 0]
    /\ pc' = [pc EXCEPT ![h] = AfterExcept]
    /\ batch' = [g \in Handles |->
                   IF \E i \in DOMAIN items[h] : items[h][i].by = g
                   THEN "failed" ELSE batch[g]]
    /\ UNCHANGED << handle, n, exists, mtime, copies, phase, nonEmpty >>
    /\ UNCHANGED lsVars
    /\ UNCHANGED callVars

\* _cache_files: the sentinel is taken off the queue and the lock released
DrainFinish(h) ==
    /\ pc[h] = "finish"
    /\ queue # << >>
    /\ queue' = Tail(queue)
    /\ unfinished' = TaskDone(unfinished)
    /\ lock' = NoHolder
    /\ items' = [items EXCEPT ![h] = << >>]
    /\ k' = [k EXCEPT ![h] = 0]
    /\ pc' = [pc EXCEPT ![h] = "join"]
    /\ batch' = [g \in Handles |->
                   IF \E i \in DOMAIN items[h] : items[h][i].by = g
                   THEN "done" ELSE batch[g]]
    /\ UNCHANGED << handle, n, exists, mtime, copies, phase, nonEmpty >>
    /\ UNCHANGED lsVars
    /\ UNCHANGED callVars

\* _cache_files: self._file_queue.join()
Join(h) ==
    /\ pc[h] = "join"
    /\ unfinished = 0
    /\ pc' = [pc EXCEPT ![h] = "open"]
    /\ UNCHANGED << handle, lock, queue, unfinished, items, n, k, exists, mtime,
                    copies, batch, phase, nonEmpty >>
    /\ UNCHANGED lsVars
    /\ UNCHANGED callVars

\* _cache_files: self._file_obj = open(self._file, self.mode)
OpenLocal(h) ==
    /\ pc[h] = "open"
    /\ IF CanOpen(h)
       THEN pc' = [pc EXCEPT ![h] = "staged"]
       ELSE pc' = [pc EXCEPT ![h] = "failed"]
    /\ UNCHANGED << handle, lock, queue, unfinished, items, n, k, exists, mtime,
                    copies, batch, phase, nonEmpty >>
    /\ UNCHANGED lsVars
    /\ UNCHANGED callVars

\* ECFile.close
Close(h) ==
    /\ pc[h] \in {"staged", "pending"}
    /\ pc' = [pc EXCEPT ![h] = AfterClose(@)]
    /\ UNCHANGED << handle, lock, queue, unfinished, items, n, k, exists, mtime,
                    copies, batch, phase, nonEmpty >>
    /\ UNCHANGED lsVars
    /\ UNCHANGED callVars

\* tell, seek, peek, read, __fspath__ on a handle that has _file_obj: the call is
\* handed to the local descriptor, which raises when it was closed
Delegate(h) ==
    /\ pc[h] \in {"staged", "closed"}
    /\ ~FileObjIsNone(h)
    /\ lastCall' = [op |-> "access", by |-> h, raised |-> pc[h] = "closed"]
    /\ UNCHANGED fileVars
    /\ UNCHANGED lsVars

\* ECFile.write, ECFile.writelines
Write(h) ==
    /\ pc[h] \in {"pending", "failed", "staged", "closed"}
    /\ IF WriteRaises(h)
       THEN /\ lastCall' = [op |-> "write", by |-> h, raised |-> TRUE]
            /\ UNCHANGED fileVars
       ELSE /\ lastCall' = [op |-> "write", by |-> h, raised |-> FALSE]
            /\ pc' = [pc EXCEPT ![h] = IF FileObjIsNone(h) THEN "sleep" ELSE @]
            /\ UNCHANGED << handle, lock, queue, unfinished, items, n, k, exists, mtime,
                            copies, batch, phase, nonEmpty >>
    /\ UNCHANGED lsVars

\* ECFileSystem.ls(path, detail=True, recursive)
Ls ==
    /\ lsCalls < MaxLsCalls
    /\ \E p \in LsPaths, recursive \in BOOLEAN :
        LET cached == CacheLookup(file_listing_cache, p, recursive)
            fetch == cached = << >>
            filelist == IF fetch THEN EcfsLs(p, recursive) ELSE cached
        IN IF fetch /\ ~InArchive(p)
           THEN /\ lastLs' = [path |-> p, recursive |-> recursive, fetched |-> TRUE,
                              raised |-> TRUE, result |-> << >>]
                /\ UNCHANGED file_listing_cache
           ELSE /\ file_listing_cache' =
                      IF fetch /\ StoresListing(recursive)
                      THEN file_listing_cache \o filelist
                      ELSE file_listing_cache
                /\ lastLs' = [path |-> p, recursive |-> recursive, fetched |-> fetch,
                              raised |-> FALSE, result |-> DetailList(p, filelist)]
    /\ lsCalls' = lsCalls + 1
    /\ UNCHANGED fileVars
    /\ UNCHANGED callVars

NextLs == Ls

SpecLs == Init /\ [][NextLs]_vars

Next ==
    \E h \in Handles :
        \/ Open(h)
        \/ InitLocked(h)
        \/ BeginAccess(h)
        \/ DrainLock(h)
        \/ SnapGet(h)
        \/ CopyItem(h)
        \/ DrainExcept(h)
        \/ DrainFinish(h)
        \/ Join(h)
        \/ OpenLocal(h)
        \/ Close(h)

Spec == Init /\ [][Next]_vars

\* the clients also call write and writelines, and go on using the handles
\* that have their local descriptor
NextCalls ==
    \/ Next
    \/ \E h \in Handles : Delegate(h)
    \/ \E h \in Handles : Write(h)

SpecCalls == Init /\ [][NextCalls]_vars

\* every step of the code of a thread is taken in the end, a copy call included;
\* the calls a client makes (open, a first access, close) are not
Fairness ==
    \A h \in Handles :
        /\ WF_vars(InitLocked(h))
        /\ WF_vars(DrainLock(h))
        /\ WF_vars(SnapGet(h))
        /\ WF_vars(CopyItem(h))
        /\ WF_vars(DrainExcept(h))
        /\ WF_vars(DrainFinish(h))
        /\ WF_vars(Join(h))
        /\ WF_vars(OpenLocal(h))

FairSpec == Spec /\ Fairness

\* ------------------------------------------------------------------ claims
\* the handles whose request the entry sequence q holds
Requesters(q) == { q[i].by : i \in { j \in DOMAIN q : ~IsSentinel(q[j]) } }

\* the handle was constructed with a local descriptor, or got one by a first access
Staged(h) == pc[h] \in {"staged", "closed"}

\* the snapshot loop of the drain of h is over
SnapshotTaken(h) == pc[h] \in {"retrieve", "except", "finish"}

\* C1: at most one thread is between taking the retrieval lock in _cache_files
\* and releasing it, so the snapshot and the copy calls of two drains never
\* interleave.
C1_OneDrainAtATime ==
    Cardinality({ h \in Handles : pc[h] \in DrainPcs }) <= 1

\* a drain is inside a copy call while another reader waits for the lock
C1_Witness ==
    \E h, g \in Handles : h # g /\ pc[h] = "retrieve" /\ pc[g] = "sleep"

\* C2 as stated: every request a drain took off the queue got exactly one copy
\* call, and a requesting handle is Staged only when all copies of the batch
\* of its request have completed.
C2_Original ==
    \A h \in Handles :
        /\ batch[h] \in {"done", "failed"} => copies[h] = 1
        /\ (Staged(h) /\ batch[h] # "none") => batch[h] = "done"

\* C2 amended: no request leaves the queue but into the batch of a drain, no
\* request gets more than one copy call, every request of a batch whose drain
\* ended without a copy failure got exactly one, and a requesting handle is
\* Staged only after the drain that took its request has ended.
C2_OneCopyPerRequest ==
    \A h \in Handles :
        /\ copies[h] <= 1
        /\ batch[h] \in {"none", "queued"} => copies[h] = 0
        /\ batch[h] = "queued" <=> h \in Requesters(queue)
        /\ batch[h] = "active" <=> \E g \in Handles : h \in Requesters(items[g])
        /\ batch[h] = "done" => copies[h] = 1
        /\ (Staged(h) /\ batch[h] # "none") => batch[h] \in {"done", "failed"}

\* every handle enqueued a request, one drain copied them all, all are Staged
C2_Witness ==
    /\ nonEmpty = 1
    /\ \A h \in Handles : batch[h] = "done" /\ copies[h] = 1 /\ pc[h] = "staged"

\* C3 as stated: no handle whose request was in a batch with a failed copy
\* reaches Staged, whether its item was copied before the failing one or its
\* local file was there before.
C3_Original ==
    \A h \in Handles : batch[h] = "failed" => ~Staged(h)

\* C4 as stated: every call of _cache_files returns or raises in the end,
\* whatever the other threads open and leave unread.
C4_Original ==
    \A h \in Handles : (pc[h] \in CachePcs) ~> (pc[h] \notin CachePcs)

\* C5: when the snapshot loop of a drain is over, every request enqueued before
\* its sentinel is in its batch (none is left in front of the sentinel), the
\* requests still queued are exactly those behind the sentinel and none of them
\* is in the batch; they stay queued until a later drain takes them all.
C5_SnapshotIsPrefix ==
    \A h \in Handles :
        SnapshotTaken(h) =>
            /\ queue # << >> /\ IsSentinel(Head(queue))
            /\ Requesters(items[h]) \cap Requesters(queue) = {}
            /\ \A g \in Handles :
                  /\ batch[g] = "queued" <=> g \in Requesters(queue)
                  /\ batch[g] = "active" <=> g \in Requesters(items[h])

\* a second drain has taken the request that was enqueued after the first one
C5_Witness ==
    /\ nonEmpty = 2
    /\ phase = "late"
    /\ \E h \in Handles : pc[h] = "retrieve" /\ Requesters(items[h]) = {h}
    /\ \E g \in Handles : batch[g] = "done"

IsPureRead(mode) == HasR(mode) /\ \A i \in DOMAIN mode : mode[i] \in {"r", "b", "t"}

\* C7 as stated: an open with a mode that is no pure read fails and enqueues
\* nothing.
C7_Original ==
    \A h \in Handles :
        (pc[h] # "new" /\ ~IsPureRead(handle[h].mode)) =>
            (pc[h] = "rejected" /\ batch[h] = "none")

\* C8: an open of a path whose local file exists, without override, enqueues
\* nothing, copies nothing, gives a Staged handle and changes the modification
\* time of that file only, and only with touch; the handle never enters
\* _cache_files later, so no copy call is ever made for it.
C8_OpenExisting ==
    [][\A h \in Handles :
          /\ ( /\ pc[h] = "init_wait" /\ pc'[h] # "init_wait"
               /\ handle[h].file \in exists /\ ~handle[h].override
               /\ ValidOpenMode(handle[h].mode) ) =>
                 /\ pc'[h] = "staged"
                 /\ queue' = queue /\ unfinished' = unfinished
                 /\ copies' = copies /\ batch' = batch
                 /\ exists' = exists
                 /\ \A p \in LocalPaths : p # handle[h].file => mtime'[p] = mtime[p]
                 /\ handle[h].touch => mtime'[handle[h].file] # mtime[handle[h].file]
                 /\ ~handle[h].touch => mtime' = mtime
          /\ (Staged(h) /\ batch[h] = "none") =>
                 (Staged(h)' /\ batch'[h] = "none" /\ copies'[h] = 0)]_vars

\* the same existing file was opened twice without override and touched twice
C8_Witness ==
    /\ \A h \in Handles : pc[h] = "staged" /\ batch[h] = "none" /\ handle[h].touch
    /\ \E p \in LocalPaths : mtime[p] = 2
    /\ queue = << >>

\* C9 as stated: every ls that is not recursive calls ecfs.ls.
C9_Original ==
    (lsCalls > 0 /\ ~lastLs.recursive) => lastLs.fetched

\* C10 as stated: when all requests were enqueued before any first access began
\* and every access is over (no copy failed), one drain took them all and the
\* local file of every requesting handle exists.
C10_Original ==
    ( /\ phase # "late"
      /\ \E h \in Handles : batch[h] # "none"
      /\ \A h \in Handles :
            batch[h] # "none" => (batch[h] = "done" /\ pc[h] \in {"staged", "closed", "failed"}) )
    => ( /\ nonEmpty = 1
         /\ \A h \in Handles : batch[h] # "none" => handle[h].file \in exists )

\* C11: a drain that failed leaves the lock free and the queue empty, with no
\* unfinished task; a failed request is in no queue and in no later batch, and
\* whenever the lock is free the queue holds no sentinel and as many entries as
\* there are unfinished tasks, so the next drain takes exactly the requests
\* enqueued after the failure.
C11_FailedDrainLeavesQueueClean ==
    [][/\ \A h \in Handles :
            (pc[h] = "except" /\ pc'[h] # "except") =>
                (lock' = NoHolder /\ queue' = << >> /\ unfinished' = 0)
       /\ \A g \in Handles :
            batch'[g] = "failed" =>
                /\ g \notin Requesters(queue')
                /\ \A h \in Handles : g \notin Requesters(items'[h])
       /\ lock' = NoHolder =>
            /\ \A i \in DOMAIN queue' : ~IsSentinel(queue'[i])
            /\ unfinished' = Len(queue')]_vars

\* after a failed drain, another drain copies the request enqueued after it
C11_Witness ==
    \E h, g \in Handles :
        /\ h # g
        /\ pc[h] = "failed" /\ batch[h] = "failed"
        /\ pc[g] = "retrieve" /\ Requesters(items[g]) = {g}

\* C13: the constructor makes no copy call and creates no local file; when the
\* local file is absent or override is set it always ends Pending, and a call
\* fails for staging only out of _cache_files (the except branch or the open
\* of the local file), never out of the constructor.
C13_OpenNeverCopies ==
    [][\A h \in Handles :
          /\ (pc[h] \in {"new", "init_wait"} /\ pc'[h] # pc[h]) =>
                /\ copies' = copies
                /\ exists' = exists
                /\ pc'[h] # "failed"
                /\ ( /\ pc[h] = "init_wait"
                     /\ (handle[h].file \notin exists \/ handle[h].override) )
                   => pc'[h] = "pending"
          /\ (pc'[h] = "failed" /\ pc[h] # "failed") => pc[h] \in {"except", "open"}]_vars

\* a handle whose file is absent was opened after a copy had failed for
\* another handle
C13_Witness ==
    \E h, g \in Handles :
        /\ pc[h] = "pending" /\ copies[h] = 0 /\ handle[h].file \notin exists
        /\ pc[g] = "failed" /\ batch[g] = "failed" /\ copies[g] = 1

\* C14 as stated: after a drain without a copy failure the local file of every
\* handle whose request was in the batch exists, whatever cache root the
\* draining handle has.
C14_Original ==
    \A h \in Handles : batch[h] = "done" => handle[h].file \in exists

\* C12: write and writelines raise on every handle, whether it is Pending,
\* has its local descriptor or was closed, and change neither the handle nor
\* the queue, the lock, the local files or any other handle: no drain starts.
C12_WriteAlwaysRaises ==
    [][\A h \in Handles :
          (lastCall' # lastCall /\ lastCall'.op = "write" /\ lastCall'.by = h) =>
              /\ lastCall'.raised
              /\ pc'[h] = pc[h] /\ pc[h] \in {"pending", "failed", "staged", "closed"}
              /\ UNCHANGED fileVars]_vars

\* write was called on a Pending handle, whose request is still queued
C12_Witness ==
    \E h \in Handles :
        /\ lastCall = [op |-> "write", by |-> h, raised |-> TRUE]
        /\ pc[h] = "pending"
        /\ h \in Requesters(queue)

\* C15 as stated: a recursive ls answered from the cache returns the entries
\* at or below the path only.
C15_Original ==
    (lsCalls > 0 /\ lastLs.recursive /\ ~lastLs.fetched) =>
        \A i \in DOMAIN lastLs.result :
            \/ lastLs.result[i].name = lastLs.path
            \/ IsBelow(lastLs.result[i].name, lastLs.path)

\* C16: the call whose drain failed raises: it leaves _cache_files out of the
\* except branch without reaching the open of the local file, so the handle
\* has no local descriptor afterwards, also when its own file was copied.
C16_FailedReadStaysPending ==
    [][\A h \in Handles :
          (pc[h] = "except" /\ pc'[h] # "except") =>
              /\ pc'[h] = "failed"
              /\ pc'[h] \notin {"join", "open", "staged"}
              /\ FileObjIsNone(h)'
              /\ ~Staged(h)']_vars

\* the draining call raised although the file of its own handle had been
\* copied: the copy of the other request failed
C16_Witness ==
    \E h, g \in Handles :
        /\ h # g
        /\ pc[h] = "failed" /\ batch[h] = "failed" /\ copies[h] = 1
        /\ handle[h].file \in exists /\ ValidOpenMode(handle[h].mode)
        /\ pc[g] = "pending" /\ batch[g] = "failed" /\ copies[g] = 1

\* C17: a copy call that fails is the last one of its drain: the call goes to
\* the except branch, where the items up to the failing one have had one copy
\* call and the items after it none; the except branch copies nothing, leaves
\* no request in the queue and raises; a failed request gets no copy call later.
C17_NoCopyAfterFailure ==
    [][\A h \in Handles :
          /\ (pc[h] = "retrieve" /\ copies' # copies /\ k'[h] = k[h]) => pc'[h] = "except"
          /\ pc'[h] = "except" =>
                \A i \in DOMAIN items'[h] :
                    copies'[items'[h][i].by] = IF i <= k'[h] THEN 1 ELSE 0
          /\ (pc[h] = "except" /\ pc'[h] # "except") =>
                /\ copies' = copies /\ exists' = exists
                /\ Requesters(queue') = {}
                /\ pc'[h] = "failed"
          /\ batch[h] = "failed" => (batch'[h] = "failed" /\ copies'[h] = copies[h])]_vars

\* the copy of the first item failed, the second request of the batch was
\* dropped without a copy call
C17_Witness ==
    \E h, g \in Handles :
        /\ h # g
        /\ pc[h] = "failed" /\ batch[h] = "failed" /\ copies[h] = 1
        /\ batch[g] = "failed" /\ copies[g] = 0

\* the requests that were enqueued and whose drain has not ended, oldest
\* first: the batch of the running drain, then the requests in the queue
Waiting ==
    LET d == { h \in Handles : pc[h] \in DrainPcs }
    IN (IF d = {} THEN << >> ELSE items[CHOOSE h \in d : TRUE])
       \o SelectSeq(queue, LAMBDA e : ~IsSentinel(e))

\* C18: requests join the waiting requests at the tail only and leave them
\* only as the whole batch of a drain that ends; every copy call of a drain
\* is for the next item of its batch in that order (the items before it have
\* had their call, the items after it have not), and the batch holds one item
\* for every request it took, also for requests of the same remote path.
C18_CopiesInFifoOrder ==
    [][/\ \/ Waiting' = Waiting
          \/ \E h \in Handles : Waiting' = Append(Waiting, Request(h))
          \/ \E h \in Handles :
                /\ pc[h] \in {"except", "finish"}
                /\ Waiting' = SubSeq(Waiting, Len(items[h]) + 1, Len(Waiting))
       /\ copies' # copies =>
             \E h \in Handles :
                /\ pc[h] = "retrieve" /\ k[h] \in DOMAIN items[h]
                /\ copies' = [copies EXCEPT ![items[h][k[h]].by] = @ + 1]
                /\ exists' \subseteq exists \cup { RetrievePath(h, items[h][k[h]].url) }
       /\ \A h \in Handles :
             SnapshotTaken(h)' =>
                /\ Cardinality(Requesters(items'[h])) = Len(items'[h])
                /\ \A i \in DOMAIN items'[h] :
                      /\ i < k'[h] => copies'[items'[h][i].by] = 1
                      /\ i > k'[h] => copies'[items'[h][i].by] = 0]_vars

\* two handles asked for the same remote path; one drain took both requests
\* and copied the file twice
C18_Witness ==
    /\ nonEmpty = 1
    /\ \E h, g \in Handles :
          /\ h # g
          /\ handle[h].url = handle[g].url /\ handle[h].file = handle[g].file
          /\ batch[h] = "done" /\ batch[g] = "done"
          /\ copies[h] = 1 /\ copies[g] = 1
          /\ mtime[handle[h].file] = 2

\* the states of a handle: 0 Created (the constructor has not returned, or
\* raised), 1 Pending, 2 Staged, 3 Closed
Rank(s) ==
    CASE s \in {"new", "init_wait", "rejected", "ctor_error"} -> 0
      [] s = "staged" -> 2
      [] s = "closed" -> 3
      [] OTHER -> 1

\* C19: the local descriptor of a handle is assigned at most once, by the
\* constructor or by the open at the end of _cache_files, and is never unset
\* again; the state of a handle never goes back from Closed to Staged, from
\* Staged to Pending or from Pending to Created.
C19_StagedOnce ==
    [][\A h \in Handles :
          /\ Rank(pc'[h]) >= Rank(pc[h])
          /\ ~FileObjIsNone(h) => ~FileObjIsNone(h)'
          /\ (FileObjIsNone(h) /\ ~FileObjIsNone(h)') =>
                (pc[h] \in {"init_wait", "open"} /\ pc'[h] = "staged")]_vars

\* a handle was Pending, was staged by a drain and closed, while another
\* handle was opened on its existing file
C19_Witness ==
    \E h, g \in Handles :
        /\ pc[h] = "closed" /\ batch[h] = "done" /\ copies[h] = 1
        /\ pc[g] = "staged" /\ batch[g] = "none"

\* C20: a handle that has its local descriptor keeps it, and no step made for
\* it (a call handed to the descriptor, close) changes the queue, the count
\* of unfinished tasks, the lock, the copy calls, the local files or another
\* handle: it never enters _cache_files.
C20_StagedOpsAreLocal ==
    [][\A h \in Handles :
          Staged(h) =>
              /\ Staged(h)'
              /\ pc'[h] \notin CachePcs
              /\ (pc'[h] # pc[h] \/ (lastCall' # lastCall /\ lastCall'.by = h)) =>
                    /\ queue' = queue /\ unfinished' = unfinished /\ lock' = lock
                    /\ copies' = copies /\ exists' = exists /\ mtime' = mtime
                    /\ \A g \in Handles : g # h => pc'[g] = pc[g]]_vars

\* a read on a handle that a drain had staged, while the request of another
\* handle is in the queue
C20_Witness ==
    \E h, g \in Handles :
        /\ pc[h] = "staged" /\ batch[h] = "done"
        /\ lastCall = [op |-> "access", by |-> h, raised |-> FALSE]
        /\ pc[g] = "pending" /\ g \in Requesters(queue)

\* every entry of a is in b at the same place
IsPrefixOf(a, b) == Len(a) <= Len(b) /\ \A i \in DOMAIN a : a[i] = b[i]

\* C21: every step that takes an entry off the queue is a step of the thread
\* that holds the retrieval lock, inside its drain; the steps of a constructor
\* and of close leave the queue as it is or append to it.
C21_RemovalByLockHolder ==
    [][/\ ~IsPrefixOf(queue, queue') =>
             \E h \in Handles :
                /\ lock = h
                /\ pc[h] \in {"snap", "except", "finish"}
                /\ \A g \in Handles : g # h => (pc'[g] = pc[g] /\ items'[g] = items[g])
                /\ \E j \in 1 .. Len(queue) : queue' = SubSeq(queue, j + 1, Len(queue))
       /\ \A h \in Handles :
             (pc[h] \in {"new", "init_wait", "pending", "staged", "closed"}
                 /\ (pc'[h] # pc[h] \/ handle'[h] # handle[h])) =>
                 (queue' = queue \/ queue' = Append(queue, Request(h)))]_vars

\* the lock holder has taken the first request off the queue, the second
\* request and the sentinel are still in it
C21_Witness ==
    \E h \in Handles :
        /\ lock = h /\ pc[h] = "snap"
        /\ Len(items[h]) = 1 /\ n[h] = 1
        /\ Len(queue) = 2 /\ IsSentinel(queue[2])

\* C22: close on a handle that has its local descriptor closes it and changes
\* nothing else; close on a Pending handle changes nothing at all: no
\* descriptor is opened, no drain starts, the queue stays as it is.
C22_CloseIsLocal ==
    \A h \in Handles :
        /\ pc[h] = "staged" =>
              /\ ENABLED Close(h)
              /\ ~ENABLED (Close(h) /\ ~(pc' = [pc EXCEPT ![h] = "closed"]))
        /\ pc[h] = "pending" =>
              /\ ENABLED Close(h)
              /\ ~ENABLED (Close(h) /\ ~(pc' = pc))
        /\ ~ENABLED (Close(h) /\ ~(UNCHANGED << handle, lock, queue, unfinished, items,
                                                n, k, exists, mtime, copies, batch >>))

\* one handle was closed after a drain had staged it, another handle is
\* Pending with its request in the queue
C22_Witness ==
    \E h, g \in Handles :
        /\ pc[h] = "closed" /\ batch[h] = "done"
        /\ pc[g] = "pending" /\ g \in Requesters(queue)

\* C23: the count of unfinished tasks is never negative and always equals
\* the number of entries in the queue, and whenever the lock is free the
\* queue holds no sentinel: the unfinished tasks are the queued requests.
C23_UnfinishedMatchesQueue ==
    /\ unfinished >= 0
    /\ unfinished = Len(queue)
    /\ lock = NoHolder =>
          /\ \A i \in DOMAIN queue : ~IsSentinel(queue[i])
          /\ unfinished = Cardinality(Requesters(queue))

\* a drain has failed and a request enqueued after it is the one unfinished task
C23_Witness ==
    /\ lock = NoHolder /\ unfinished = 1 /\ Len(queue) = 1
    /\ \E h, g \in Handles :
          /\ pc[h] = "failed" /\ batch[h] = "failed"
          /\ pc[g] = "pending" /\ batch[g] = "queued"

\* C24 as stated: the request of a handle that was never read and that a
\* drain of another handle took has had its copy call when that drain is over.
C24_Original ==
    \A h \in Handles :
        (pc[h] = "pending" /\ batch[h] \in {"done", "failed"}) => copies[h] = 1

\* C24 amended: a request leaves the queue only into the batch of the running
\* drain, never by a step of its own handle outside a drain; a drain takes
\* every queued request, those of handles never read included; when the drain
\* ends without a copy failure such a request has had its one copy call, and
\* when a copy of the batch failed it has had at most one.
C24_RequestStaysUntilDrained ==
    [][\A h \in Handles :
          /\ (h \in Requesters(queue) /\ h \notin Requesters(queue')) =>
                \E g \in Handles :
                    lock = g /\ pc[g] = "snap" /\ h \in Requesters(items'[g])
          /\ (pc[h] = "pending" /\ pc'[h] = "pending" /\ batch[h] = "queued") =>
                (batch'[h] = "queued" <=> h \in Requesters(queue'))
          /\ (\E g \in Handles : SnapshotTaken(g)') => batch'[h] # "queued"
          /\ (pc'[h] = "pending" /\ batch'[h] = "done") => copies'[h] = 1
          /\ (pc'[h] = "pending" /\ batch'[h] = "failed") => copies'[h] <= 1]_vars

\* the request of a handle that was never read was copied by the drain of
\* another handle, the only drain there was
C24_Witness ==
    /\ nonEmpty = 1
    /\ \E h, g \in Handles :
          /\ pc[h] = "pending" /\ batch[h] = "done" /\ copies[h] = 1
          /\ pc[g] = "staged" /\ batch[g] = "done"

\* the entries of a listing, without their order
ToSet(seq) == { seq[i] : i \in DOMAIN seq }

\* C25 as stated: a recursive ls that is answered from the cache returns the
\* entries a fresh ecfs.ls of the same path returns.
C25_Original ==
    (lsCalls > 0 /\ lastLs.recursive /\ ~lastLs.fetched) =>
        ToSet(lastLs.result) = ToSet(DetailList(lastLs.path, EcfsLs(lastLs.path, TRUE)))

====
